---- MODULE Spec2Model ----
(***************************************************************************)
(* Model of the P1 telegram acquisition state machine of                   *)
(* components/p1_mini/p1_mini.cpp (P1Mini::loop, P1Mini::ChangeState, the  *)
(* discard log, the two CRC engines and the OBIS address codec).           *)
(*                                                                         *)
(* Bytes are naturals 0..255 (char is unsigned on the ESP tool chains).    *)
(* The message buffer is a 0-based array; cells at or beyond               *)
(* m_message_buffer_size stand for the memory that follows the allocation. *)
(* Fields that only feed the cycle-time log line (m_verifying_crc_time,    *)
(* m_processing_time, m_waiting_time, the loop counters and the statistics *)
(* flags) and the secondary-port passthrough do not influence control flow *)
(* and are not part of the state.                                          *)
(***************************************************************************)
EXTENDS Integers, Sequences, FiniteSets, TLC

VARIABLES
    p1,      \* the P1Mini object
    rx,      \* bytes received by the transport and not yet read
    obs,     \* what the last invocation of loop() did
    now,     \* millis()
    wire,    \* bytes the meter has put on the line that have not arrived yet
    sent,    \* telegrams transmitted so far
    ticks,   \* clock advances so far
    script   \* the telegram transmitted last

vars == <<p1, rx, obs, now, wire, sent, ticks, script>>

----------------------------------------------------------------------------
(* Bounds of the model *)

\* telegrams the meter transmits in one behaviour
MaxTelegrams == 2
\* clock advances in one behaviour
MaxTicks == 2
\* capacity, in bytes, of the discard log (kept small so that it fills up)
DiscardLogBytes == 3
\* records or TLV elements one invocation handles before its time box may expire
MaxUnits == 2

----------------------------------------------------------------------------
(* Characters *)

CharCode ==
    [c \in {"0","1","2","3","4","5","6","7","8","9",
            "a","b","c","d","e","f","A","B","C","D","E","F",
            "/","!","(",")","*","-",".",":","W","S","k","h","V","I","x"," ",
            "\n","\r"} |->
        CASE c = "0" -> 48 [] c = "1" -> 49 [] c = "2" -> 50 [] c = "3" -> 51
          [] c = "4" -> 52 [] c = "5" -> 53 [] c = "6" -> 54 [] c = "7" -> 55
          [] c = "8" -> 56 [] c = "9" -> 57
          [] c = "a" -> 97 [] c = "b" -> 98 [] c = "c" -> 99 [] c = "d" -> 100
          [] c = "e" -> 101 [] c = "f" -> 102
          [] c = "A" -> 65 [] c = "B" -> 66 [] c = "C" -> 67 [] c = "D" -> 68
          [] c = "E" -> 69 [] c = "F" -> 70
          [] c = "/" -> 47 [] c = "!" -> 33 [] c = "(" -> 40 [] c = ")" -> 41
          [] c = "*" -> 42 [] c = "-" -> 45 [] c = "." -> 46 [] c = ":" -> 58
          [] c = "W" -> 87 [] c = "S" -> 83 [] c = "k" -> 107 [] c = "h" -> 104
          [] c = "V" -> 86 [] c = "I" -> 73 [] c = "x" -> 120 [] c = " " -> 32
          [] c = "\n" -> 10 [] c = "\r" -> 13]

\* the bytes of a text given as a tuple of one-character strings
Str(t) == [i \in 1..Len(t) |-> CharCode[t[i]]]

NUL == 0
LF == 10
CR == 13
BANG == 33
SLASH == 47
LPAREN == 40
RPAREN == 41
FLAG == 126
CONTROL == 19

IsDigit(c) == c >= 48 /\ c <= 57
IsSpace(c) == (c >= 9 /\ c <= 13) \/ c = 32
IsHexDigit(c) == IsDigit(c) \/ (c >= 97 /\ c <= 102) \/ (c >= 65 /\ c <= 70)
HexVal(c) == IF IsDigit(c) THEN c - 48 ELSE IF c >= 97 THEN c - 87 ELSE c - 55

RECURSIVE Iterate(_, _, _)
\* F applied n times to x.  The halves keep the evaluation shallow, and
\* y \in {..} binds the value of the first half, which is computed once.
Iterate(F(_), x, n) ==
    IF n <= 0 THEN x
    ELSE IF n = 1 THEN F(x)
    ELSE CHOOSE r \in {Iterate(F, y, n - (n \div 2)) : y \in {Iterate(F, x, n \div 2)}} : TRUE

Max(a, b) == IF a >= b THEN a ELSE b
Min(a, b) == IF a <= b THEN a ELSE b

----------------------------------------------------------------------------
(* 32-bit unsigned values (the millisecond clock, the address keys) are    *)
(* pairs <<high 16 bits, low 16 bits>>: the arithmetic is modulo 2^32.     *)

U32(n) == <<n \div 65536, n % 65536>>

U32Add(a, b) ==
    <<(a[1] + b[1] + ((a[2] + b[2]) \div 65536)) % 65536, (a[2] + b[2]) % 65536>>

U32Sub(a, b) ==
    IF a[2] >= b[2]
    THEN <<(a[1] - b[1] + 65536) % 65536, a[2] - b[2]>>
    ELSE <<(a[1] - b[1] - 1 + 65536) % 65536, a[2] - b[2] + 65536>>

U32Less(a, b) == a[1] < b[1] \/ (a[1] = b[1] /\ a[2] < b[2])

----------------------------------------------------------------------------
(* Bit operations on naturals of n bits *)

RECURSIVE BitXor(_, _, _)
BitXor(a, b, n) ==
    IF n = 0 THEN 0
    ELSE (((a % 2) + (b % 2)) % 2) + 2 * BitXor(a \div 2, b \div 2, n - 1)

RECURSIVE BitAnd(_, _, _)
BitAnd(a, b, n) ==
    IF n = 0 THEN 0
    ELSE ((a % 2) * (b % 2)) + 2 * BitAnd(a \div 2, b \div 2, n - 1)

----------------------------------------------------------------------------
(* Address codec *)

\* the all-ones key
OBIS_ERROR == <<65535, 65535>>

\* OBIS(major, minor, micro): (major & 0xfff) << 16 | (minor & 0xff) << 8 | (micro & 0xff)
OBIS(major, minor, micro) ==
    <<major % 4096, (minor % 256) * 256 + (micro % 256)>>

----------------------------------------------------------------------------
(* Checksum engines *)

\* one bit of either CRC: wCrc & 1 ? (wCrc >> 1) ^ poly : wCrc >> 1
CrcShift(wCrc, poly) ==
    IF wCrc % 2 = 1 THEN BitXor(wCrc \div 2, poly, 16) ELSE wCrc \div 2

\* wCrc ^= byte, then the eight shifts
CrcByte(wCrc, byte, poly) ==
    LET Shift(w) == CrcShift(w, poly)
    IN  Iterate(Shift, (wCrc \div 256) * 256 + BitXor(wCrc % 256, byte, 8), 8)

\* the register r = [crc, at] after one more byte of mem
CrcNext(mem, poly, r) == [crc |-> CrcByte(r.crc, mem[r.at], poly), at |-> r.at + 1]

\* while (length--) over mem[from], ..., mem[from + length - 1]
CrcRun(mem, from, length, wCrc, poly) ==
    LET Step(r) == CrcNext(mem, poly, r)
    IN  Iterate(Step, [crc |-> wCrc, at |-> from], length).crc

crc16_ccitt_false(mem, from, length) == CrcRun(mem, from, length, 0, 40961)

crc16_x25(mem, from, length) ==
    BitXor(CrcRun(mem, from, length, 65535, 33800), 65535, 16)

----------------------------------------------------------------------------
(* The P1Mini object.  An invocation is computed on a context c:           *)
(*   c.p1   the fields of the object                                       *)
(*   c.rx   the bytes the transport holds (available() / GetByte())        *)
(*   c.ms   what millis() returns; c.t0 is loop_start_time                 *)
(*   c.ret  the invocation has executed a return                           *)
(*   c.units  iterations left before the 25 ms time box is found expired   *)
(*   c.obs  what the invocation did, for the properties below              *)
(***************************************************************************)

States == {"IDENTIFYING_MESSAGE", "READING_MESSAGE", "VERIFYING_CRC",
           "PROCESSING_ASCII", "PROCESSING_BINARY", "WAITING", "ERROR_RECOVERY"}

\* cells of the modelled memory: the buffer and what follows it
MemLen == 64

MemCells == 0..(MemLen - 1)

\* *(m_message_buffer + i); memory beyond the modelled cells reads as NUL
Peek(c, i) == IF i \in MemCells THEN c.p1.m_message_buffer[i] ELSE NUL

\* the invocation reads buffer index i
NoteRead(c, i) == [c EXCEPT !.obs.rd_max = Max(@, i)]

\* the invocation reads buffer indices from..to
NoteReads(c, from, to) == IF to >= from THEN NoteRead(c, to) ELSE c

available(c) == Len(c.rx) > 0

\* GetByte(): the next byte of the transport
GetByte(c) == [byte |-> Head(c.rx), c |-> [c EXCEPT !.rx = Tail(@)]]

\* for (auto T : m_..._triggers) T->trigger(): the hook is recorded with the
\* state that is current when it fires and with what is known of the checksum
Fire(c, hook) ==
    IF hook = "none" THEN c
    ELSE [c EXCEPT !.obs.hooks = Append(@, [hook |-> hook, current |-> c.p1.m_state,
                                            checksum |-> c.obs.tele_crc]),
                   !.obs.tele_hooks = Append(@, hook)]

\* FlushDiscardLog that emits the log and forgets to empty it
FlushDiscardLogKeeps(c) ==
    IF c.p1.m_discard_log # <<>>
    THEN [c EXCEPT !.obs.emitted = Append(@, c.p1.m_discard_log)]
    ELSE c

\* m_discard_log_position != m_discard_log_buffer: emit the text, empty the log
FlushDiscardLog(c) ==
    IF c.p1.m_discard_log # <<>>
    THEN [c EXCEPT !.obs.emitted = Append(@, c.p1.m_discard_log),
                   !.p1.m_discard_log = <<>>]
    ELSE c

hex_chars == Str(<<"0","1","2","3","4","5","6","7","8","9","a","b","c","d","e","f">>)

AddByteToDiscardLog(c, byte) ==
    LET c1 == [c EXCEPT !.p1.m_discard_log =
                   @ \o <<hex_chars[(byte \div 16) + 1], hex_chars[(byte % 16) + 1]>>]
    IN  IF Len(c1.p1.m_discard_log) = 2 * DiscardLogBytes THEN FlushDiscardLog(c1) ELSE c1

\* the triggers, with update_received moved behind the checksum comparison
HookOfPostChecksum(c, new_state) ==
    CASE new_state = "IDENTIFYING_MESSAGE" -> "ready_to_receive"
      [] new_state = "READING_MESSAGE" -> "receiving_update"
      [] new_state \in {"PROCESSING_ASCII", "PROCESSING_BINARY"} -> "update_received"
      [] new_state = "WAITING" ->
           IF c.p1.m_state # "ERROR_RECOVERY" THEN "update_processed" ELSE "none"
      [] new_state = "ERROR_RECOVERY" -> "communication_error"
      [] OTHER -> "none"

\* the triggers, without the test that keeps update_processed from firing when
\* ERROR_RECOVERY is left
HookOfEveryWaiting(c, new_state) ==
    CASE new_state = "IDENTIFYING_MESSAGE" -> "ready_to_receive"
      [] new_state = "READING_MESSAGE" -> "receiving_update"
      [] new_state = "VERIFYING_CRC" -> "update_received"
      [] new_state = "WAITING" -> "update_processed"
      [] new_state = "ERROR_RECOVERY" -> "communication_error"
      [] OTHER -> "none"

\* the triggers that ChangeState fires for new_state
HookOf(c, new_state) ==
    CASE new_state = "IDENTIFYING_MESSAGE" -> "ready_to_receive"
      [] new_state = "READING_MESSAGE" -> "receiving_update"
      [] new_state = "VERIFYING_CRC" -> "update_received"
      [] new_state = "WAITING" ->
           IF c.p1.m_state # "ERROR_RECOVERY" THEN "update_processed" ELSE "none"
      [] new_state = "ERROR_RECOVERY" -> "communication_error"
      [] OTHER -> "none"

\* the bookkeeping without the reset of the write cursor
BookkeepingKeepsCursor(c, new_state, current_time) ==
    CASE new_state = "IDENTIFYING_MESSAGE" ->
           [c EXCEPT !.p1.m_identifying_message_time = current_time,
                     !.p1.m_crc_position = 0,
                     !.p1.m_data_format = "UNKNOWN",
                     !.obs.tele_visited = <<>>,
                     !.obs.tele_pubs = <<>>,
                     !.obs.tele_hooks = <<>>,
                     !.obs.tele_crc = "none",
                     !.obs.tele_timeout = FALSE,
                     !.obs.tele_crc_moved = FALSE,
                     !.obs.tele_records = <<>>,
                     !.obs.tele_elems = <<>>,
                     !.obs.tele_reads = 0]
      [] new_state = "READING_MESSAGE" ->
           [c EXCEPT !.p1.m_reading_message_time = current_time,
                     !.obs.identified = TRUE]
      [] new_state \in {"PROCESSING_ASCII", "PROCESSING_BINARY"} ->
           [c EXCEPT !.p1.m_start_of_data = 0]
      [] new_state = "ERROR_RECOVERY" ->
           [c EXCEPT !.p1.m_error_recovery_time = current_time,
                     !.obs.rec_drain = <<>>]
      [] OTHER -> c

\* the fields that ChangeState assigns for new_state, at current_time
Bookkeeping(c, new_state, current_time) ==
    CASE new_state = "IDENTIFYING_MESSAGE" ->
           [c EXCEPT !.p1.m_identifying_message_time = current_time,
                     !.p1.m_crc_position = 0,
                     !.p1.m_message_buffer_position = 0,
                     !.p1.m_data_format = "UNKNOWN",
                     !.obs.tele_visited = <<>>,
                     !.obs.tele_pubs = <<>>,
                     !.obs.tele_hooks = <<>>,
                     !.obs.tele_crc = "none",
                     !.obs.tele_timeout = FALSE,
                     !.obs.tele_crc_moved = FALSE,
                     !.obs.tele_records = <<>>,
                     !.obs.tele_elems = <<>>,
                     !.obs.tele_reads = 0]
      [] new_state = "READING_MESSAGE" ->
           [c EXCEPT !.p1.m_reading_message_time = current_time,
                     !.obs.identified = TRUE]
      [] new_state \in {"PROCESSING_ASCII", "PROCESSING_BINARY"} ->
           [c EXCEPT !.p1.m_start_of_data = 0]
      [] new_state = "ERROR_RECOVERY" ->
           [c EXCEPT !.p1.m_error_recovery_time = current_time,
                     !.obs.rec_drain = <<>>]
      [] OTHER -> c

\* the switch of ChangeState, then m_state = new_state
ChangeState(c, new_state) ==
    [Fire(Bookkeeping(c, new_state, c.ms), HookOf(c, new_state))
       EXCEPT !.p1.m_state = new_state,
              !.obs.calls = Append(@, [from |-> c.p1.m_state, to |-> new_state,
                                       hook |-> HookOf(c, new_state)]),
              !.obs.tele_visited = Append(@, new_state)]

\* a time limit has been found exceeded
TimedOut(c) == [c EXCEPT !.obs.tele_timeout = TRUE]

Return(c) == [c EXCEPT !.ret = TRUE]

\* m_message_buffer[m_message_buffer_position++] = read_byte
StoreByte(c, read_byte) ==
    LET i == c.p1.m_message_buffer_position
    IN  [c EXCEPT !.p1.m_message_buffer =
                      IF i \in MemCells THEN [@ EXCEPT ![i] = read_byte] ELSE @,
                  !.p1.m_message_buffer_position = i + 1,
                  !.obs.wr_max = Max(@, i)]

----------------------------------------------------------------------------
(* READING_MESSAGE *)

\* m_crc_position = value; it is noted when that changes a boundary already set
SetCrcPosition(c, value) ==
    [c EXCEPT !.p1.m_crc_position = value,
              !.obs.tele_crc_moved = @ \/ (c.p1.m_crc_position # 0 /\ c.p1.m_crc_position # value)]

\* one iteration of while (available()) { ... }
ReadByte(c0) ==
    LET g == GetByte(c0)
        read_byte == g.byte
        c1 == StoreByte(g.c, read_byte)
        pos == c1.p1.m_message_buffer_position
        fmt == c1.p1.m_data_format
        bad_header == fmt = "BINARY" /\ pos = 3 /\ BitAnd(224, Peek(c1, 1), 8) # 160
        c2 == IF fmt = "ASCII" /\ read_byte = BANG
              THEN SetCrcPosition(c1, pos)
              ELSE IF fmt = "BINARY" /\ pos = 3 /\ ~bad_header
              THEN SetCrcPosition(c1, BitAnd(31, Peek(c1, 1), 8) * 256 + Peek(c1, 2) - 1)
              ELSE c1
        crc == c2.p1.m_crc_position
    IN  IF bad_header THEN Return(ChangeState(c1, "ERROR_RECOVERY"))
        ELSE IF crc > 0 /\ pos > crc /\ fmt = "ASCII" /\ read_byte = LF
        THEN Return(ChangeState(c2, "VERIFYING_CRC"))
        ELSE IF crc > 0 /\ pos > crc /\ fmt = "BINARY" /\ pos = crc + 3
        THEN IF read_byte # FLAG
             THEN Return(ChangeState(c2, "ERROR_RECOVERY"))
             ELSE Return(ChangeState(c2, "VERIFYING_CRC"))
        ELSE IF pos = c2.p1.m_message_buffer_size
        THEN Return(ChangeState(c2, "ERROR_RECOVERY"))
        ELSE c2

\* while (available()) { ... }: an iteration for every byte the transport
\* holds, until one of them returns
ReadWhileAvailable(c) ==
    LET Step(d) == IF d.ret \/ ~available(d) THEN d ELSE ReadByte(d)
    IN  Iterate(Step, c, Len(c.rx))

max_message_time_ms == 10000

\* the invocation finds bytes of the telegram to read: one more that does
NoteArrival(c) == IF available(c) THEN [c EXCEPT !.obs.tele_reads = @ + 1] ELSE c

\* case states::READING_MESSAGE, also entered by falling through from
\* IDENTIFYING_MESSAGE
ReadingMessage(c) ==
    LET c1 == ReadWhileAvailable(NoteArrival(c))
    IN  IF c1.ret THEN c1
        ELSE IF U32Less(U32(max_message_time_ms), U32Sub(c1.t0, c1.p1.m_reading_message_time))
                /\ U32Less(c1.p1.m_reading_message_time, c1.t0)
        THEN ChangeState(TimedOut(c1), "ERROR_RECOVERY")
        ELSE c1

----------------------------------------------------------------------------
(* IDENTIFYING_MESSAGE *)

max_wait_time_ms == 60000

IdentifyingMessageNoTimeout(c) ==
    IF ~available(c)
    THEN c
    ELSE LET g == GetByte(c)
             read_byte == g.byte
         IN  IF read_byte # SLASH /\ read_byte # FLAG
             THEN Return(ChangeState(g.c, "ERROR_RECOVERY"))
             ELSE ReadingMessage(
                    ChangeState(
                      StoreByte([g.c EXCEPT !.p1.m_data_format =
                                     IF read_byte = SLASH THEN "ASCII" ELSE "BINARY"],
                                read_byte),
                      "READING_MESSAGE"))

IdentifyingMessage(c) ==
    IF ~available(c)
    THEN IF U32Less(U32(max_wait_time_ms), U32Sub(c.t0, c.p1.m_identifying_message_time))
         THEN ChangeState(TimedOut(c), "ERROR_RECOVERY")
         ELSE c
    ELSE LET g == GetByte(c)
             read_byte == g.byte
         IN  IF read_byte # SLASH /\ read_byte # FLAG
             THEN Return(ChangeState(g.c, "ERROR_RECOVERY"))
             ELSE ReadingMessage(
                    ChangeState(
                      StoreByte([g.c EXCEPT !.p1.m_data_format =
                                     IF read_byte = SLASH THEN "ASCII" ELSE "BINARY"],
                                read_byte),
                      "READING_MESSAGE"))

----------------------------------------------------------------------------
(* VERIFYING_CRC *)

LONG_MAX == 2147483647

RECURSIVE SkipSpace(_, _)
SkipSpace(c, i) == IF IsSpace(Peek(c, i)) THEN SkipSpace(c, i + 1) ELSE i

\* the digits of strtol(.., 16) from index i on: the value (saturating at LONG_MAX)
\* and the index of the first byte that is not a digit
HexDigits(c, i, acc) ==
    LET Step(d) ==
            IF d.end \/ ~IsHexDigit(Peek(c, d.stop)) THEN [d EXCEPT !.end = TRUE]
            ELSE [val |-> IF d.val > (LONG_MAX - 15) \div 16 THEN LONG_MAX
                          ELSE d.val * 16 + HexVal(Peek(c, d.stop)),
                  stop |-> d.stop + 1,
                  end |-> FALSE]
        digits == Iterate(Step, [val |-> acc, stop |-> i, end |-> FALSE], MemLen + 1 - i)
    IN  [val |-> digits.val, stop |-> digits.stop]

\* strtol(m_message_buffer + from, NULL, 16): white space, a sign, "0x", digits.
\* last is the highest index read.
strtol16(c, from) ==
    LET i1 == SkipSpace(c, from)
        neg == Peek(c, i1) = CharCode["-"]
        i2 == IF Peek(c, i1) \in {CharCode["-"], 43} THEN i1 + 1 ELSE i1
        pre == Peek(c, i2) = 48 /\ Peek(c, i2 + 1) \in {120, 88}
        i3 == IF pre THEN i2 + 2 ELSE i2
        d == HexDigits(c, i3, 0)
    IN  [val |-> IF d.stop = i3 THEN 0 ELSE IF neg THEN 0 - d.val ELSE d.val,
         last |-> Max(d.stop, IF Peek(c, i2) = 48 THEN i2 + 1 ELSE i2)]

\* for (int i{ 0 }; i < m_message_buffer_position; ++i) AddByteToDiscardLog(m_message_buffer[i])
DiscardBuffer(c) ==
    LET Step(d) == [c |-> AddByteToDiscardLog(NoteRead(d.c, d.i), Peek(d.c, d.i)),
                    i |-> d.i + 1]
    IN  Iterate(Step, [c |-> c, i |-> 0], c.p1.m_message_buffer_position).c

\* a comparison that accepts every checksum
CrcAlwaysMatches(crc, crc_from_msg) == TRUE

\* if (crc == crc_from_msg)
CrcMatches(crc, crc_from_msg) == crc = crc_from_msg

VerifyingCrc(c) ==
    LET crcpos == c.p1.m_crc_position
        fmt == c.p1.m_data_format
        parsed == strtol16(c, crcpos)
        crc_from_msg ==
            IF fmt = "ASCII" THEN parsed.val
            ELSE IF fmt = "BINARY" THEN Peek(c, crcpos + 1) * 256 + Peek(c, crcpos)
            ELSE 0 - 1
        crc ==
            IF fmt = "ASCII" THEN crc16_ccitt_false(c.p1.m_message_buffer, 0, crcpos)
            ELSE IF fmt = "BINARY" THEN crc16_x25(c.p1.m_message_buffer, 1, crcpos - 1)
            ELSE 0
        c1 == IF fmt = "ASCII"
              THEN NoteReads(NoteRead(c, parsed.last), 0, crcpos - 1)
              ELSE IF fmt = "BINARY"
              THEN NoteReads(NoteRead(c, crcpos + 1), 1, crcpos - 1)
              ELSE c
        c2 == [c1 EXCEPT !.obs.crc = <<crc, crc_from_msg>>,
                         !.obs.tele_crc = IF crc = crc_from_msg THEN "ok" ELSE "bad"]
    IN  IF CrcMatches(crc, crc_from_msg)
        THEN Return(ChangeState(c2, IF fmt = "BINARY" THEN "PROCESSING_BINARY"
                                    ELSE "PROCESSING_ASCII"))
        ELSE Return(ChangeState(FlushDiscardLog(DiscardBuffer(c2)), "ERROR_RECOVERY"))

----------------------------------------------------------------------------
(* WAITING and ERROR_RECOVERY *)

\* the WAITING case without the minimum period
WaitingIgnoresPeriod(c) == ChangeState(c, "IDENTIFYING_MESSAGE")

\* the WAITING case with the test for bytes made first
WaitingRejectsAnyData(c) ==
    IF available(c)
    THEN ChangeState(c, "ERROR_RECOVERY")
    ELSE IF c.p1.m_min_period_ms = 0
            \/ U32Less(U32(c.p1.m_min_period_ms), U32Sub(c.t0, c.p1.m_identifying_message_time))
    THEN ChangeState(c, "IDENTIFYING_MESSAGE")
    ELSE c

Waiting(c) ==
    IF c.p1.m_min_period_ms = 0
       \/ U32Less(U32(c.p1.m_min_period_ms), U32Sub(c.t0, c.p1.m_identifying_message_time))
    THEN ChangeState(c, "IDENTIFYING_MESSAGE")
    ELSE IF available(c)
    THEN ChangeState(c, "ERROR_RECOVERY")
    ELSE c

max_bytes_to_discard == 200

\* do { AddByteToDiscardLog(GetByte()); } while (available() && max_bytes_to_discard-- != 0)
\* d.max is max_bytes_to_discard, d.go whether the body runs again
Drain(c, max) ==
    LET Step(d) ==
            IF ~d.go THEN d
            ELSE LET g == GetByte(d.c)
                     c1 == AddByteToDiscardLog(g.c, g.byte)
                 IN  [c |-> c1, max |-> IF available(c1) THEN d.max - 1 ELSE d.max,
                      go |-> available(c1) /\ d.max # 0]
    IN  Iterate(Step, [c |-> c, max |-> max, go |-> TRUE], Len(c.rx)).c

quiet_time_ms == 500

\* the invocation takes bytes from the transport while recovering: when
NoteDrain(c) == [c EXCEPT !.obs.rec_drain = <<c.t0>>]

\* a recovery that goes straight back to the identification of a telegram
ErrorRecoveryToIdentifying(c) ==
    IF available(c)
    THEN Drain(NoteDrain(c), max_bytes_to_discard)
    ELSE IF U32Less(U32(quiet_time_ms), U32Sub(c.t0, c.p1.m_error_recovery_time))
    THEN FlushDiscardLog(ChangeState(c, "IDENTIFYING_MESSAGE"))
    ELSE c

\* a recovery with the test of the quiet time the wrong way round
ErrorRecoveryTooEarly(c) ==
    IF available(c)
    THEN Drain(NoteDrain(c), max_bytes_to_discard)
    ELSE IF U32Less(U32Sub(c.t0, c.p1.m_error_recovery_time), U32(quiet_time_ms))
    THEN FlushDiscardLog(ChangeState(c, "WAITING"))
    ELSE c

ErrorRecovery(c) ==
    IF available(c)
    THEN Drain(NoteDrain(c), max_bytes_to_discard)
    ELSE IF U32Less(U32(quiet_time_ms), U32Sub(c.t0, c.p1.m_error_recovery_time))
    THEN FlushDiscardLog(ChangeState(c, "WAITING"))
    ELSE c

----------------------------------------------------------------------------
(* Text scanning used by PROCESSING_ASCII.  A line is the sequence of the  *)
(* bytes between m_start_of_data and end_of_line (where the code writes a  *)
(* NUL for the duration of the iteration); positions are 1-based and the   *)
(* position after the last byte reads as the NUL.                          *)
(* Values are decimals [n, s] = n / 10^s without trailing zeros: the       *)
(* rounding of double and float is not modelled.  strtod and %lf are       *)
(* modelled for [white space] [sign] digits [. digits]; exponents, hex     *)
(* floats, "inf" and "nan" do not occur in the modelled telegrams.         *)
(***************************************************************************)

At(line, i) == IF i >= 1 /\ i <= Len(line) THEN line[i] ELSE NUL

RECURSIVE Dec(_, _)
Dec(n, s) == IF s > 0 /\ n % 10 = 0 THEN Dec(n \div 10, s - 1) ELSE [n |-> n, s |-> s]

RECURSIVE SkipSpaceAt(_, _)
SkipSpaceAt(line, i) == IF IsSpace(At(line, i)) THEN SkipSpaceAt(line, i + 1) ELSE i

RECURSIVE Digits(_, _, _, _)
\* a run of decimal digits from position i: value, count and the position after it
Digits(line, i, acc, cnt) ==
    IF IsDigit(At(line, i))
    THEN Digits(line, i + 1,
                IF acc > (LONG_MAX - 9) \div 10 THEN LONG_MAX ELSE acc * 10 + (At(line, i) - 48),
                cnt + 1)
    ELSE [val |-> acc, cnt |-> cnt, next |-> i]

\* the conversion %d of sscanf at position i
ScanD(line, i) ==
    LET i1 == SkipSpaceAt(line, i)
        neg == At(line, i1) = 45
        i2 == IF At(line, i1) \in {45, 43} THEN i1 + 1 ELSE i1
        d == Digits(line, i2, 0, 0)
    IN  [ok |-> d.cnt > 0, val |-> IF neg THEN 0 - d.val ELSE d.val, next |-> d.next]

\* strtod from position i (after its white space): ok is endptr > start
ScanF(line, i) ==
    LET i1 == SkipSpaceAt(line, i)
        neg == At(line, i1) = 45
        i2 == IF At(line, i1) \in {45, 43} THEN i1 + 1 ELSE i1
        ip == Digits(line, i2, 0, 0)
        dot == At(line, ip.next) = 46
        fp == IF dot THEN Digits(line, ip.next + 1, ip.val, 0)
              ELSE [val |-> ip.val, cnt |-> 0, next |-> ip.next]
        ok == ip.cnt + fp.cnt > 0
        mag == Dec(fp.val, fp.cnt)
    IN  [ok |-> ok,
         val |-> IF ~ok THEN Dec(0, 0) ELSE IF neg THEN [n |-> 0 - mag.n, s |-> mag.s] ELSE mag,
         next |-> IF ~ok THEN i ELSE IF dot THEN fp.next ELSE ip.next]

RECURSIVE StrChr(_, _, _)
\* strchr from position i: the position of ch, or 0 for nullptr
StrChr(line, i, ch) ==
    IF i > Len(line) THEN 0 ELSE IF line[i] = ch THEN i ELSE StrChr(line, i + 1, ch)

\* sscanf(line + from - 1, "%d.%d.%d(%lf", ...): conversions assigned and their values
ScanShort(line, from) ==
    LET ma == ScanD(line, from)
        mi == ScanD(line, ma.next + 1)
        mc == ScanD(line, mi.next + 1)
        v  == ScanF(line, mc.next + 1)
        n  == IF ~ma.ok THEN 0
              ELSE IF At(line, ma.next) # 46 \/ ~mi.ok THEN 1
              ELSE IF At(line, mi.next) # 46 \/ ~mc.ok THEN 2
              ELSE IF At(line, mc.next) # LPAREN \/ ~v.ok THEN 3
              ELSE 4
    IN  [n |-> n, major |-> ma.val, minor |-> mi.val, micro |-> mc.val, value |-> v.val]

\* sscanf(line, "%d-%d:%d.%d.%d(", ...): the trailing "(" does not count
ScanFull(line) ==
    LET a == ScanD(line, 1)
        b == ScanD(line, a.next + 1)
        t == ScanShort(line, b.next + 1)
        n == IF ~a.ok THEN 0
             ELSE IF At(line, a.next) # 45 \/ ~b.ok THEN 1
             ELSE IF At(line, b.next) # 58 THEN 2
             ELSE 2 + Min(t.n, 3)
    IN  [n |-> n, major |-> t.major, minor |-> t.minor, micro |-> t.micro]

\* sscanf(line, "1-0:%d.%d.%d(%lf", ...)
ScanLegacy(line) ==
    IF At(line, 1) = 49 /\ At(line, 2) = 45 /\ At(line, 3) = 48 /\ At(line, 4) = 58
    THEN ScanShort(line, 5)
    ELSE [n |-> 0, major |-> 0 - 1, minor |-> 0 - 1, micro |-> 0 - 1, value |-> Dec(0 - 1, 0)]

RECURSIVE AllDigits(_)
AllDigits(t) == t = <<>> \/ (IsDigit(Head(t)) /\ AllDigits(Tail(t)))

RECURSIVE SkipZeros(_, _)
\* while (*num_start == '0' && *(num_start + 1) != '.' && *(num_start + 1) != '\0') num_start++
SkipZeros(t, i) ==
    IF At(t, i) = 48 /\ At(t, i + 1) # 46 /\ At(t, i + 1) # NUL THEN SkipZeros(t, i + 1) ELSE i

RECURSIVE GroupValue(_, _)
\* the loop over the parenthesised groups, from current_pos on: the first group
\* that is not a timestamp and starts with a number gives the value
GroupValue(line, current_pos) ==
    IF At(line, current_pos) = NUL \/ At(line, current_pos) = BANG
    THEN [found |-> FALSE, value |-> Dec(0 - 1, 0)]
    ELSE LET open == StrChr(line, current_pos, LPAREN)
             close == IF open = 0 THEN 0 ELSE StrChr(line, open + 1, RPAREN)
             content == SubSeq(line, open + 1, close - 1)
             content_len == Len(content)
             is_timestamp ==
                 (content_len > 10 /\ content[content_len] \in {87, 83})
                 \/ (content_len > 10 /\ AllDigits(content))
             num_start == SkipZeros(content, 1)
             parsed == ScanF(content, num_start)
         IN  IF open = 0 \/ close = 0 THEN [found |-> FALSE, value |-> Dec(0 - 1, 0)]
             ELSE IF ~is_timestamp /\ parsed.ok /\ parsed.next > num_start
             THEN [found |-> TRUE, value |-> parsed.val]
             ELSE GroupValue(line, close + 1)

----------------------------------------------------------------------------
(* OBIS(char const *code): the key of a sensor from the text of its        *)
(* configuration.  The parts are uint32_t: they are kept as pairs of 16    *)
(* bits, so that a long run of digits wraps as it does in the code.        *)

\* part * 10 + (*C - '0') in 32 bits
TimesTenPlus(part, digit) ==
    <<(part[1] * 10 + ((part[2] * 10 + digit) \div 65536)) % 65536,
      (part[2] * 10 + digit) % 65536>>

RECURSIVE DigitRun(_, _, _)
\* while (std::isdigit(*C)) part = part * 10 + (*C++ - '0'): the part and where C stops
DigitRun(code, C, part) ==
    IF IsDigit(At(code, C))
    THEN DigitRun(code, C + 1, TimesTenPlus(part, At(code, C) - 48))
    ELSE [part |-> part, C |-> C]

\* OBIS(major, minor, micro) of parts of 32 bits: the masks keep low bits only
OBISOfParts(major, minor, micro) == OBIS(major[2], minor[2], micro[2])

\* the rest of either format from the minor part on: minor "." micro, end of text
MinorMicro(code, C, major) ==
    LET minor == DigitRun(code, C, U32(0))
        micro == DigitRun(code, minor.C + 1, U32(0))
    IN  IF At(code, minor.C) # 46 THEN OBIS_ERROR
        ELSE IF At(code, micro.C) # NUL THEN OBIS_ERROR
        ELSE OBISOfParts(major, minor.part, micro.part)

OBISCode(code) ==
    LET a_part == DigitRun(code, 1, U32(0))
        b_part == DigitRun(code, a_part.C + 1, U32(0))
        major == DigitRun(code, b_part.C + 1, U32(0))
    IN  IF At(code, a_part.C) = NUL THEN OBIS_ERROR
        ELSE IF At(code, a_part.C) = 45
        THEN IF At(code, b_part.C) # 58 THEN OBIS_ERROR
             ELSE IF At(code, major.C) # 46 THEN OBIS_ERROR
             ELSE MinorMicro(code, major.C + 1, major.part)
        ELSE IF At(code, a_part.C) = 46
        THEN MinorMicro(code, a_part.C + 1, a_part.part)
        ELSE OBIS_ERROR

----------------------------------------------------------------------------
(* Sensor registry: the keys of m_sensors and the identifiers of           *)
(* m_text_sensors in registration order                                    *)

m_sensors == {OBIS(1, 8, 0), OBIS(32, 7, 0)}

m_text_sensors == << Str(<<"0","-","0",":","9","6">>), Str(<<"0","-","0">>) >>

Publish(c, pub) ==
    [c EXCEPT !.obs.pubs = Append(@, pub), !.obs.tele_pubs = Append(@, pub)]

----------------------------------------------------------------------------
(* PROCESSING_ASCII *)

RECURSIVE SkipEol(_, _)
\* while (*m_start_of_data == '\n' || *m_start_of_data == '\r') ++m_start_of_data
SkipEol(c, i) == IF Peek(c, i) \in {LF, CR} THEN SkipEol(c, i + 1) ELSE i

RECURSIVE FindEol(_, _)
FindEol(c, i) == IF Peek(c, i) \in {LF, CR, NUL, BANG} THEN i ELSE FindEol(c, i + 1)

IsPrefix(ident, line) ==
    Len(ident) <= Len(line) /\ \A i \in 1..Len(ident) : ident[i] = line[i]

RECURSIVE FirstTextSensor(_, _)
\* the first text sensor, from index k on, whose identifier starts the line; 0 if none
FirstTextSensor(line, k) ==
    IF k > Len(m_text_sensors) THEN 0
    ELSE IF IsPrefix(m_text_sensors[k], line) THEN k
    ELSE FirstTextSensor(line, k + 1)

\* the three attempts to read a line as a sensor line: whether one succeeds,
\* and the key and the value it gives
SensorLine(line) ==
    LET full == ScanFull(line)
        obis_end == StrChr(line, 1, LPAREN)
        legacy == ScanLegacy(line)
        short == ScanShort(line, 1)
        form == IF full.n = 5 THEN 1 ELSE IF legacy.n = 4 THEN 2
                ELSE IF short.n = 4 THEN 3 ELSE 0
    IN  [is_sensor_line |-> form # 0,
         key |-> IF form = 1 THEN OBIS(full.major, full.minor, full.micro)
                 ELSE IF form = 2 THEN OBIS(legacy.major, legacy.minor, legacy.micro)
                 ELSE OBIS(short.major, short.minor, short.micro),
         value |-> IF form = 1
                   THEN (IF obis_end = 0 THEN Dec(0 - 1, 0) ELSE GroupValue(line, obis_end).value)
                   ELSE IF form = 2 THEN legacy.value ELSE short.value]

\* a dispatch that goes on to the text sensors after a numeric sensor matched
DispatchLineBoth(c, line) ==
    LET s == SensorLine(line)
        text == FirstTextSensor(line, 1)
        c1 == IF s.is_sensor_line /\ s.key \in m_sensors
              THEN Publish(c, [kind |-> "value", key |-> s.key, val |-> s.value])
              ELSE c
    IN  IF text # 0
        THEN Publish(c1, [kind |-> "text", key |-> text, val |-> line])
        ELSE c1

\* what the code does with a non-empty line
DispatchLine(c, line) ==
    LET s == SensorLine(line)
        text == FirstTextSensor(line, 1)
    IN  IF s.is_sensor_line /\ s.key \in m_sensors
        THEN Publish(c, [kind |-> "value", key |-> s.key, val |-> s.value])
        ELSE IF text # 0
        THEN Publish(c, [kind |-> "text", key |-> text, val |-> line])
        ELSE c

\* the line has been dispatched, from context c1 to context c2: what was
\* published for it
NoteRecord(c1, line, c2) ==
    [c2 EXCEPT !.obs.tele_records =
        Append(@, [line |-> line,
                   pubs |-> SubSeq(c2.obs.pubs, Len(c1.obs.pubs) + 1, Len(c2.obs.pubs))])]

\* the iteration that takes a carriage return for the end of the telegram
AsciiRecordEndsAtCr(c) ==
    LET start == SkipEol(c, c.p1.m_start_of_data)
        end_of_line == FindEol(c, start)
        end_of_line_char == Peek(c, end_of_line)
        line == [i \in 1..(end_of_line - start) |-> Peek(c, start + i - 1)]
        c1 == NoteRead([c EXCEPT !.p1.m_start_of_data = start], end_of_line)
        c2 == IF end_of_line # start
              THEN NoteRecord(c1, line, DispatchLine(c1, line))
              ELSE c1
    IN  IF end_of_line_char = CR \/ end_of_line_char = BANG
        THEN Return(ChangeState(c2, "WAITING"))
        ELSE [c2 EXCEPT !.p1.m_start_of_data = end_of_line + 1]

\* one iteration of the do { ... } while of PROCESSING_ASCII
AsciiRecord(c) ==
    LET start == SkipEol(c, c.p1.m_start_of_data)
        end_of_line == FindEol(c, start)
        end_of_line_char == Peek(c, end_of_line)
        line == [i \in 1..(end_of_line - start) |-> Peek(c, start + i - 1)]
        c1 == NoteRead([c EXCEPT !.p1.m_start_of_data = start], end_of_line)
        c2 == IF end_of_line # start
              THEN NoteRecord(c1, line, DispatchLine(c1, line))
              ELSE c1
    IN  IF end_of_line_char = NUL \/ end_of_line_char = BANG
        THEN Return(ChangeState(c2, "WAITING"))
        ELSE [c2 EXCEPT !.p1.m_start_of_data = end_of_line + 1]

time_box_ms == 25

\* a time box that lets one more iteration start after the 25 ms
TimeBoxOpenOneMore(c) == c.units > 0

\* while (millis() - loop_start_time < 25): true while the invocation has
\* iterations left; when they are used up the 25 ms have passed
TimeBoxOpen(c) == c.units > 1

\* a time box that loses the place in the telegram when it closes
TimeBoxExpiredRewinds(c) ==
    [c EXCEPT !.ms = U32Add(c.t0, U32(time_box_ms)), !.p1.m_start_of_data = 0]

TimeBoxExpired(c) == [c EXCEPT !.ms = U32Add(c.t0, U32(time_box_ms))]

RECURSIVE ProcessingAscii(_)
ProcessingAscii(c) ==
    LET c1 == AsciiRecord(c)
    IN  IF c1.ret THEN c1
        ELSE IF TimeBoxOpen(c1) THEN ProcessingAscii([c1 EXCEPT !.units = @ - 1])
        ELSE TimeBoxExpired(c1)

----------------------------------------------------------------------------
(* PROCESSING_BINARY *)

RECURSIVE FindControl(_, _)
\* while (*m_start_of_data != 0x13 && m_start_of_data <= m_message_buffer + m_crc_position)
FindControl(c, i) ==
    IF Peek(c, i) # CONTROL /\ i <= c.p1.m_crc_position THEN FindControl(c, i + 1) ELSE i

\* the first invocation looks for the control byte and skips six bytes
BinaryStart(c) ==
    IF c.p1.m_start_of_data = 0
    THEN LET i == FindControl(c, 3)
             c1 == NoteRead(c, i)
         IN  IF i > c.p1.m_crc_position
             THEN Return(ChangeState([c1 EXCEPT !.p1.m_start_of_data = i], "ERROR_RECOVERY"))
             ELSE [c1 EXCEPT !.p1.m_start_of_data = i + 6]
    ELSE c

\* the value of a scalar element: raw (32 bits) / div, negative if neg
RawValue(hi, lo, neg, div) == [raw |-> <<hi, lo>>, neg |-> neg, div |-> div]

\* a scalar that is handed to its sensor twice
PublishCurrentTwice(c, val) ==
    IF c.p1.m_obis_code \in m_sensors
    THEN Publish(Publish(c, [kind |-> "value", key |-> c.p1.m_obis_code, val |-> val]),
                 [kind |-> "value", key |-> c.p1.m_obis_code, val |-> val])
    ELSE c

\* auto iter{ m_sensors.find(m_obis_code) }; if (iter != m_sensors.end()) ...publish_val(fv)
PublishCurrent(c, val) ==
    IF c.p1.m_obis_code \in m_sensors
    THEN Publish(c, [kind |-> "value", key |-> c.p1.m_obis_code, val |-> val])
    ELSE c

Advance(c, n) == [c EXCEPT !.p1.m_start_of_data = @ + n]

\* the element at position p has been walked, from context c1 to context c2:
\* its type, the six bytes after the type, and what was published for it
NoteElement(c1, p, c2) ==
    [c2 EXCEPT !.obs.tele_elems =
        Append(@, [type |-> Peek(c1, p),
                   bytes |-> [k \in 1..6 |-> Peek(c1, p + k)],
                   pubs |-> SubSeq(c2.obs.pubs, Len(c1.obs.pubs) + 1, Len(c2.obs.pubs))])]

\* one iteration of the do { switch (type) ... } while of PROCESSING_BINARY
BinaryElement(c) ==
    LET p == c.p1.m_start_of_data
        type == Peek(c, p)
        B(k) == Peek(c, p + k)
        c0 == NoteRead(c, p)
        cs ==
          CASE type = 0 -> Advance(c0, 1)
            [] type \in {1, 2, 15, 22} -> Advance(c0, 2)
            [] type = 6 ->
                 Advance(PublishCurrent(NoteRead(c0, p + 4),
                             RawValue(B(1) * 256 + B(2), B(3) * 256 + B(4), FALSE, 1000)), 5)
            [] type = 9 ->
                 Advance(IF B(1) = 6
                         THEN [NoteRead(c0, p + 6) EXCEPT !.p1.m_obis_code = OBIS(B(4), B(5), B(6))]
                         ELSE NoteRead(c0, p + 1),
                         2 + B(1))
            [] type = 10 -> Advance(NoteRead(c0, p + 1), 2 + B(1))
            [] type = 12 -> Advance(c0, 13)
            [] type = 16 ->
                 Advance(PublishCurrent(NoteRead(c0, p + 2),
                             RawValue(0, B(1) * 256 + B(2), FALSE, 10)), 3)
            [] type = 18 ->
                 Advance(PublishCurrent(NoteRead(c0, p + 2),
                             IF B(1) >= 128
                             THEN RawValue(0, 65536 - (B(1) * 256 + B(2)), TRUE, 10)
                             ELSE RawValue(0, B(1) * 256 + B(2), FALSE, 10)), 3)
            [] OTHER -> Return(ChangeState(c0, "ERROR_RECOVERY"))
        c1 == NoteElement(c0, p, cs)
    IN  IF c1.ret THEN c1
        ELSE IF c1.p1.m_start_of_data >= c1.p1.m_crc_position
        THEN Return(ChangeState(c1, "WAITING"))
        ELSE c1

RECURSIVE BinaryLoop(_)
BinaryLoop(c) ==
    LET c1 == BinaryElement(c)
    IN  IF c1.ret THEN c1
        ELSE IF TimeBoxOpen(c1) THEN BinaryLoop([c1 EXCEPT !.units = @ - 1])
        ELSE TimeBoxExpired(c1)

ProcessingBinary(c) ==
    LET c1 == BinaryStart(c)
    IN  IF c1.ret THEN c1 ELSE BinaryLoop(c1)

----------------------------------------------------------------------------
(* The meter: the telegrams it may put on the line *)

SeqMem(t) == [i \in 0..(Len(t) - 1) |-> t[i + 1]]

HEX == Str(<<"0","1","2","3","4","5","6","7","8","9","A","B","C","D","E","F">>)

\* four upper-case hexadecimal digits
Hex4(n) == <<HEX[(n \div 4096) + 1], HEX[((n \div 256) % 16) + 1],
             HEX[((n \div 16) % 16) + 1], HEX[(n % 16) + 1]>>

\* an ASCII telegram: the data, "!", the CRC of both, CR LF
AsciiTelegram(data) ==
    LET body == data \o <<BANG>>
    IN  body \o Hex4(crc16_ccitt_false(SeqMem(body), 0, Len(body))) \o <<CR, LF>>

\* the same with the last checksum digit altered
AsciiTelegramBadCrc(data) ==
    LET body == data \o <<BANG>>
        crc == crc16_ccitt_false(SeqMem(body), 0, Len(body))
    IN  body \o Hex4((crc + 1) % 65536) \o <<CR, LF>>

\* a binary frame: flag, format and length, the payload, the CRC (low byte
\* first) of everything after the flag, flag
BinaryFrame(payload) ==
    LET length == Len(payload) + 4
        head == <<160 + (length \div 256), length % 256>> \o payload
        crc == crc16_x25(SeqMem(head), 0, Len(head))
    IN  <<FLAG>> \o head \o <<crc % 256, crc \div 256, FLAG>>

BinaryFrameBadCrc(payload) ==
    LET length == Len(payload) + 4
        head == <<160 + (length \div 256), length % 256>> \o payload
        crc == (crc16_x25(SeqMem(head), 0, Len(head)) + 1) % 65536
    IN  <<FLAG>> \o head \o <<crc % 256, crc \div 256, FLAG>>

CRLF == <<CR, LF>>

Header == Str(<<"/","I">>) \o CRLF

\* 1-0:1.8.0(01.5*k): a record of a registered address
RecEnergy == Str(<<"1","-","0",":","1",".","8",".","0","(","0","1",".","5","*","k",")">>)

\* 2.8.0(7): a record, in the short form, of an address without a sensor
RecOther == Str(<<"2",".","8",".","0","(","7",")">>)

\* 0-0:96(4): a record for the text sensors
RecText == Str(<<"0","-","0",":","9","6","(","4",")">>)

AsciiGood ==
    AsciiTelegram(Header \o RecEnergy \o CRLF \o RecOther \o CRLF \o RecText \o CRLF)

AsciiBad == AsciiTelegramBadCrc(Header \o RecOther \o CRLF)

\* a telegram without a checksum: "!" is followed by CR LF at once
AsciiNoCrc == Header \o <<BANG, CR, LF>>

\* a telegram with a "!" inside its data
AsciiTwoBangs == AsciiTelegram(Str(<<"/","!","x","x","x","x">>))

\* 0-0:32.7.0(5): a record of a registered address that a text sensor matches
RecBoth == Str(<<"0","-","0",":","3","2",".","7",".","0","(","5",")">>)

\* 0-0:96.1.1(4): a record of an unregistered address that two text sensors match
RecSerial == Str(<<"0","-","0",":","9","6",".","1",".","1","(","4",")">>)

\* a telegram whose records the numeric and the text sensors compete for
AsciiMixed == AsciiTelegram(Header \o RecBoth \o CRLF \o RecSerial \o CRLF)

\* a telegram longer than the largest buffer
AsciiLong ==
    AsciiTelegram(Header \o RecEnergy \o CRLF \o RecEnergy \o CRLF \o RecText \o CRLF)

\* control byte, five bytes to skip
BinPrefix == <<CONTROL, 0, 0, 230, 231, 0>>

\* octet string of six bytes naming 1-0:1.8.0, then unsigned-32 1234567
BinEnergy == <<9, 6, 1, 0, 1, 8, 0, 255, 6, 0, 18, 214, 135>>

\* a structure of two: unsigned-16 7 and signed-16 -6 for 1-0:32.7.0
BinVolts == <<2, 2, 9, 6, 1, 0, 32, 7, 0, 255, 16, 0, 7, 18, 255, 250>>

BinaryGood == BinaryFrame(BinPrefix \o BinEnergy \o BinVolts)

\* 1-0:2.8.0, for which no sensor is registered, with unsigned-32 5, then
\* 1-0:32.7.0 with unsigned-16 7
BinOther == <<9, 6, 1, 0, 2, 8, 0, 255, 6, 0, 0, 0, 5, 9, 6, 1, 0, 32, 7, 0, 255, 16, 0, 7>>

BinaryOther == BinaryFrame(BinPrefix \o BinOther)

\* a frame whose first element is a scalar: unsigned-16 9
BinaryOrphan == BinaryFrame(BinPrefix \o <<16, 0, 9>>)

BinaryBad == BinaryFrameBadCrc(BinPrefix \o BinEnergy)

\* an unsigned-32 element whose data bytes lie where the checksum is
BinaryTruncated == BinaryFrame(BinPrefix \o <<0, 6>>)

\* no control byte at all
BinaryNoControl == BinaryFrame(<<0, 0, 230, 231, 0, 0>>)

\* no control byte in the payload, and a checksum whose low byte, the byte at
\* the checksum boundary, happens to be 0x13: 7E A0 0A 00 00 E6 E7 00 32 13 7F 7E
BinaryControlInCrc == BinaryFrame(<<0, 0, 230, 231, 0, 50>>)

\* an element type the walk does not know
BinaryUnknownType == BinaryFrame(BinPrefix \o <<0, 3, 1>>)

\* streams that are no telegram
Junk == { Str(<<"x">>), <<FLAG, 0, 0>> }

\* a stray byte and then telegrams without a pause, as after a connection in
\* the middle of a transmission: more than max_bytes_to_discard bytes
Flood == Str(<<"x">>) \o AsciiGood \o AsciiGood \o AsciiGood \o AsciiGood

Telegrams ==
    {AsciiGood, AsciiMixed, AsciiBad, AsciiNoCrc, AsciiTwoBangs, AsciiLong,
     BinaryGood, BinaryOther, BinaryBad, BinaryTruncated, BinaryNoControl, BinaryUnknownType,
     BinaryControlInCrc, Flood}
    \cup Junk

\* what the meter may transmit after its first telegram
FollowUps == {AsciiBad, AsciiNoCrc, BinaryTruncated, BinaryOrphan}

\* a meter keeps to one data format: what may follow telegram t
FollowUpsOf(t) == {f \in FollowUps : (Head(f) = FLAG) = (Head(t) = FLAG)}

\* how far the clock may advance at once
TickSteps == {501, 60001}

\* the constructions: buffer size, minimum period, and the byte the freshly
\* allocated buffer happens to hold.  The sizes are 1, the 2 of the fallback
\* buffer, the exact length of AsciiGood, and a size with room to spare
Configs ==
    { [size |-> 1, period |-> 0, fill |-> NUL],
      [size |-> 2, period |-> 0, fill |-> NUL],
      [size |-> 51, period |-> 0, fill |-> 65],
      [size |-> 56, period |-> 2000, fill |-> NUL] }

\* where the arrival of a telegram of n bytes may be split
SplitPoints(n) == {1, n \div 2, n} \ {0}

----------------------------------------------------------------------------
(* State machine *)

\* the record of an invocation that starts in the current state
NoObs(o) ==
    [o EXCEPT !.state0 = p1.m_state,
              !.hooks = <<>>, !.calls = <<>>, !.pubs = <<>>, !.emitted = <<>>,
              !.rd_max = 0 - 1, !.wr_max = 0 - 1, !.units = 0]

\* the object after its constructor, for a construction of Configs
Constructed(cfg) ==
    [m_state |-> "IDENTIFYING_MESSAGE",
     m_data_format |-> "UNKNOWN",
     m_message_buffer |-> [i \in MemCells |-> cfg.fill],
     m_message_buffer_size |-> cfg.size,
     m_message_buffer_position |-> 0,
     m_crc_position |-> 0,
     m_start_of_data |-> 0,
     m_obis_code |-> <<0, 0>>,
     m_identifying_message_time |-> U32(0),
     m_reading_message_time |-> U32(0),
     m_error_recovery_time |-> U32(0),
     m_min_period_ms |-> cfg.period,
     m_discard_log |-> <<>>]

\* nothing has been observed yet
NothingObserved ==
    [state0 |-> "IDENTIFYING_MESSAGE",
     hooks |-> <<>>, calls |-> <<>>, pubs |-> <<>>, emitted |-> <<>>,
     rd_max |-> 0 - 1, wr_max |-> 0 - 1, units |-> 0,
     crc |-> <<0, 0>>,
     tele_visited |-> <<"IDENTIFYING_MESSAGE">>, tele_pubs |-> <<>>,
     tele_hooks |-> <<>>, tele_crc |-> "none", tele_timeout |-> FALSE,
     tele_crc_moved |-> FALSE,
     rec_drain |-> <<>>,
     identified |-> FALSE,
     tele_records |-> <<>>,
     tele_elems |-> <<>>,
     tele_reads |-> 0]

Init ==
    /\ \E cfg \in Configs : p1 = Constructed(cfg)
    /\ rx = <<>>
    /\ obs = NothingObserved
    /\ now = U32(0)
    /\ wire = <<>>
    /\ sent = 0
    /\ ticks = 0
    /\ script = <<>>

\* loop() is entered: loop_start_time is millis(), and `units` iterations will
\* pass before the time box of a processing loop expires
Enter(units) ==
    [p1 |-> p1, rx |-> rx, obs |-> [NoObs(obs) EXCEPT !.units = units],
     ms |-> now, t0 |-> now, ret |-> FALSE, units |-> units]

\* loop() returns to the host
Leave(c) ==
    /\ p1' = c.p1
    /\ rx' = c.rx
    /\ obs' = c.obs
    /\ now' = c.ms
    /\ UNCHANGED <<wire, sent, ticks, script>>

\* loop(), by the case of its switch (m_state).  Case is the operator of the
\* case (it is a parameter only to keep TLC's coverage bookkeeping small).
LoopIdentifying(Case(_)) ==
    /\ p1.m_state = "IDENTIFYING_MESSAGE"
    /\ Leave(Case(Enter(0)))

LoopReading(Case(_)) ==
    /\ p1.m_state = "READING_MESSAGE"
    /\ Leave(Case(Enter(0)))

LoopVerifyingCrc(Case(_)) ==
    /\ p1.m_state = "VERIFYING_CRC"
    /\ Leave(Case(Enter(0)))

LoopProcessingAscii(Case(_)) ==
    /\ p1.m_state = "PROCESSING_ASCII"
    /\ \E units \in 1..MaxUnits : Leave(Case(Enter(units)))

LoopProcessingBinary(Case(_)) ==
    /\ p1.m_state = "PROCESSING_BINARY"
    /\ \E units \in 1..MaxUnits : Leave(Case(Enter(units)))

LoopWaiting(Case(_)) ==
    /\ p1.m_state = "WAITING"
    /\ Leave(Case(Enter(0)))

LoopErrorRecovery(Case(_)) ==
    /\ p1.m_state = "ERROR_RECOVERY"
    /\ Leave(Case(Enter(0)))

\* the meter starts to transmit a telegram
Transmit ==
    /\ wire = <<>>
    /\ rx = <<>>
    /\ sent < MaxTelegrams
    /\ \E t \in (IF sent = 0 THEN Telegrams ELSE FollowUpsOf(script)) : wire' = t /\ script' = t
    /\ sent' = sent + 1
    /\ UNCHANGED <<p1, rx, obs, now, ticks>>

\* bytes of the telegram reach the transport: a telegram arrives in one piece
\* or in two
Arrive ==
    /\ wire # <<>>
    /\ \E k \in (IF wire = script THEN SplitPoints(Len(wire)) ELSE {Len(wire)}) :
         /\ rx' = rx \o SubSeq(wire, 1, k)
         /\ wire' = SubSeq(wire, k + 1, Len(wire))
    /\ UNCHANGED <<p1, obs, now, sent, ticks, script>>

\* time passes between invocations
Tick ==
    /\ ticks < MaxTicks
    /\ rx = <<>>
    /\ \E d \in TickSteps : now' = U32Add(now, U32(d))
    /\ ticks' = ticks + 1
    /\ UNCHANGED <<p1, rx, obs, wire, sent, script>>

Next ==
    \/ LoopIdentifying(IdentifyingMessage)
    \/ LoopReading(ReadingMessage)
    \/ LoopVerifyingCrc(VerifyingCrc)
    \/ LoopProcessingAscii(ProcessingAscii)
    \/ LoopProcessingBinary(ProcessingBinary)
    \/ LoopWaiting(Waiting)
    \/ LoopErrorRecovery(ErrorRecovery)
    \/ Transmit
    \/ Arrive
    \/ Tick

Spec == Init /\ [][Next]_vars

\* The recovery under fairness.  The meter transmits short streams only, each
\* of which makes the machine enter ERROR_RECOVERY: an unknown first byte, a
\* malformed binary header, an ASCII telegram with a wrong checksum.
AsciiTiny == Str(<<"/","!","0">>) \o CRLF

LiveTelegrams == Junk \cup {AsciiTiny}

LiveTransmit ==
    /\ wire = <<>>
    /\ rx = <<>>
    /\ sent < MaxTelegrams
    /\ \E t \in LiveTelegrams : wire' = t /\ script' = t
    /\ sent' = sent + 1
    /\ UNCHANGED <<p1, rx, obs, now, ticks>>

\* a transport that goes on to deliver a byte whenever the recovering machine
\* has emptied it
Stream ==
    /\ p1.m_state = "ERROR_RECOVERY"
    /\ rx = <<>>
    /\ wire = <<>>
    /\ rx' = Str(<<"x">>)
    /\ UNCHANGED <<p1, obs, now, wire, sent, ticks, script>>

\* an invocation of loop() in one of the states these streams lead to
LiveLoop ==
    \/ LoopIdentifying(IdentifyingMessage)
    \/ LoopReading(ReadingMessage)
    \/ LoopVerifyingCrc(VerifyingCrc)
    \/ LoopWaiting(Waiting)
    \/ LoopErrorRecovery(ErrorRecovery)

LiveNext ==
    \/ LiveLoop
    \/ LiveTransmit
    \/ Arrive
    \/ Tick
    \/ Stream

\* the construction with a minimum period, so that Waiting lasts
LiveInit == Init /\ p1.m_min_period_ms # 0

----------------------------------------------------------------------------
(* The construction of a sensor from the text of its address:              *)
(* m_obis{ OBIS(obis_code.c_str()) }.  script holds the text and obs the   *)
(* key, once the sensor is constructed.                                    *)

\* the runs of digits a text is put together from
Runs == {<<>>, Str(<<"1">>), Str(<<"9","6">>), Str(<<"4","0","9","7">>)}

ShortRuns == {<<>>, Str(<<"1">>)}

\* texts with the separators of the full and of the short format, and texts
\* that break the format: no separator, wrong or missing separators, trailing
\* characters, characters that are no digits, a part beyond 32 bits
ObisTexts ==
    {a \o Str(<<"-">>) \o b \o Str(<<":">>) \o c \o Str(<<".">>) \o d \o Str(<<".">>) \o e :
        a \in ShortRuns, b \in ShortRuns, c \in Runs, d \in Runs, e \in Runs}
    \cup {c \o Str(<<".">>) \o d \o Str(<<".">>) \o e : c \in Runs, d \in Runs, e \in Runs}
    \cup { <<>>,
            Str(<<"1">>),
            Str(<<"1","-","0">>),
            Str(<<"1",".","8">>),
            Str(<<"1","-","0",":","1",".","8">>),
            Str(<<"1","-","0",":","1",".","8",".","0","x">>),
            Str(<<"1","-","0",":","1",".","8",".","0","(">>),
            Str(<<"1",".","8",".","0",".">>),
            Str(<<"1",":","0","-","1",".","8",".","0">>),
            Str(<<"1","-","0",".","1",".","8",".","0">>),
            Str(<<"1","-","0",":","1",":","8",".","0">>),
            Str(<<"x",".","8",".","0">>),
            Str(<<"1",".","x",".","0">>),
            Str(<<" ","1",".","8",".","0">>),
            Str(<<"-","1",".","8",".","0">>),
            Str(<<"4","2","9","4","9","6","7","2","9","7",".","8",".","0">>) }

SensorInit ==
    /\ script \in ObisTexts
    /\ obs = [m_obis |-> <<>>]
    /\ p1 = [m_state |-> "IDENTIFYING_MESSAGE"]
    /\ rx = <<>>
    /\ now = U32(0)
    /\ wire = <<>>
    /\ sent = 0
    /\ ticks = 0

\* the constructor of the sensor
Construct ==
    /\ obs.m_obis = <<>>
    /\ obs' = [m_obis |-> <<OBISCode(script)>>]
    /\ UNCHANGED <<p1, rx, now, wire, sent, ticks, script>>

SensorSpec == SensorInit /\ [][Construct]_vars

----------------------------------------------------------------------------
(* The run of reference: the machine as constructed takes a telegram that   *)
(* is there in one piece, in invocations whose time box never closes.       *)

WholeUnits == 16

\* loop() once more, with time standing still; the machine rests where it
\* waits for time to pass or for bytes that do not come
WholeLoop(c) ==
    LET e == [c EXCEPT !.ret = FALSE, !.units = WholeUnits]
    IN  CASE c.p1.m_state = "IDENTIFYING_MESSAGE" -> IF available(c) THEN IdentifyingMessage(e) ELSE c
          [] c.p1.m_state = "READING_MESSAGE" -> IF available(c) THEN ReadingMessage(e) ELSE c
          [] c.p1.m_state = "VERIFYING_CRC" -> VerifyingCrc(e)
          [] c.p1.m_state = "PROCESSING_ASCII" -> ProcessingAscii(e)
          [] c.p1.m_state = "PROCESSING_BINARY" -> ProcessingBinary(e)
          [] c.p1.m_state = "ERROR_RECOVERY" -> IF available(c) THEN ErrorRecovery(e) ELSE c
          [] OTHER -> c

\* the machine of construction cfg after telegram t
WholeRun(cfg, t) ==
    Iterate(WholeLoop,
            [p1 |-> Constructed(cfg), rx |-> t, obs |-> NothingObserved,
             ms |-> U32(0), t0 |-> U32(0), ret |-> FALSE, units |-> WholeUnits],
            6)

\* loop() invoked while the machine identifies and nothing is available
IdleInvocation == rx = <<>> /\ LoopIdentifying(IdentifyingMessage)

\* the host keeps invoking loop() while the machine recovers, waits or idles,
\* and the clock advances as long as the model lets it
LiveSpec ==
    /\ LiveInit
    /\ [][LiveNext]_vars
    /\ WF_vars(LoopErrorRecovery(ErrorRecovery))
    /\ WF_vars(LoopWaiting(Waiting))
    /\ WF_vars(IdleInvocation)
    /\ SF_vars(Tick)

----------------------------------------------------------------------------
(* The read deadline at every phase of the clock.  millis() is a 32-bit    *)
(* counter that wraps after 49.7 days, and ChangeState reads it again      *)
(* after loop() has read loop_start_time.                                  *)

\* the clock when the machine starts to identify a telegram: just started, a
\* millisecond before the wrap, five seconds before the wrap
ClockStarts == {U32(0), U32Sub(U32(0), U32(1)), U32Sub(U32(0), U32(5000))}

\* the milliseconds between loop_start_time and the millis() of ChangeState
Lags == {0, 1}

\* the machine identifies, having entered IDENTIFYING_MESSAGE at the current
\* time, as ChangeState leaves it
ClockInit ==
    /\ now \in ClockStarts
    /\ p1 = [Constructed([size |-> 56, period |-> 0, fill |-> NUL])
               EXCEPT !.m_identifying_message_time = now]
    /\ rx = <<>>
    /\ obs = NothingObserved
    /\ wire = <<>>
    /\ sent = 0
    /\ ticks = 0
    /\ script = <<>>

\* loop() in IDENTIFYING_MESSAGE when a byte is available, with the time that
\* passes before ChangeState reads the clock
ClockIdentifying ==
    /\ p1.m_state = "IDENTIFYING_MESSAGE"
    /\ rx # <<>>
    /\ \E lag \in Lags :
         Leave(IdentifyingMessage([Enter(0) EXCEPT !.ms = U32Add(now, U32(lag))]))

\* the telegram is identified and read; what follows the reading is left out
ClockNext ==
    \/ ClockIdentifying
    \/ LoopReading(ReadingMessage)
    \/ Transmit
    \/ Arrive
    \/ Tick

ClockSpec == ClockInit /\ [][ClockNext]_vars

-----------------------------------------------------------------------------
(* Properties *)

Processing == {"PROCESSING_ASCII", "PROCESSING_BINARY"}

HappyPath ==
    <<"IDENTIFYING_MESSAGE", "READING_MESSAGE", "VERIFYING_CRC", "PROCESSING_ASCII", "WAITING">>

\* the invocation that ended last ran VERIFYING_CRC and found the checksums unequal
FoundMismatch == obs.state0 = "VERIFYING_CRC" /\ obs.crc[1] # obs.crc[2]

\* C1: every byte stored by Identifying or Reading is written at an index
\* strictly below the buffer capacity, and the write cursor never exceeds the
\* capacity
C1_BufferWriteSafety ==
    /\ obs.wr_max < p1.m_message_buffer_size
    /\ p1.m_message_buffer_position <= p1.m_message_buffer_size

\* C2: a sensor callback is invoked only by an invocation that runs
\* ProcessingAscii or ProcessingBinary; those states are entered only from
\* VerifyingCrc and only when the computed checksum equals the transmitted one;
\* a telegram whose checksum does not match causes no callback at all and
\* moves the machine to ErrorRecovery
C2_NoDispatchWithoutCrc ==
    /\ (obs.pubs # <<>> => obs.state0 \in Processing)
    /\ \A i \in 1..Len(obs.calls) :
         obs.calls[i].to \in Processing =>
             /\ obs.calls[i].from = "VERIFYING_CRC"
             /\ obs.state0 = "VERIFYING_CRC"
             /\ obs.crc[1] = obs.crc[2]
    /\ (FoundMismatch => obs.tele_pubs = <<>> /\ p1.m_state = "ERROR_RECOVERY")
    /\ (obs.tele_pubs # <<>> => obs.tele_crc = "ok")

\* a telegram with a wrong checksum has been rejected without any callback
C2_Witness ==
    /\ FoundMismatch
    /\ script = AsciiBad
    /\ obs.tele_pubs = <<>>
    /\ p1.m_state = "ERROR_RECOVERY"

\* the well-formed ASCII telegrams, their records and the records' addresses
WellFormedAscii == {AsciiGood, AsciiLong}

RecordsOf(t) ==
    IF t = AsciiGood THEN <<RecEnergy, RecOther, RecText>>
    ELSE <<RecEnergy, RecEnergy, RecText>>

AddressOf(rec) ==
    IF rec = RecEnergy THEN OBIS(1, 8, 0)
    ELSE IF rec = RecOther THEN OBIS(2, 8, 0)
    ELSE OBIS_ERROR

RECURSIVE RegisteredAddresses(_)
RegisteredAddresses(recs) ==
    IF recs = <<>> THEN <<>>
    ELSE (IF AddressOf(Head(recs)) \in m_sensors THEN <<AddressOf(Head(recs))>> ELSE <<>>)
         \o RegisteredAddresses(Tail(recs))

RECURSIVE NumericKeys(_)
NumericKeys(pubs) ==
    IF pubs = <<>> THEN <<>>
    ELSE (IF Head(pubs).kind = "value" THEN <<Head(pubs).key>> ELSE <<>>)
         \o NumericKeys(Tail(pubs))

StartsWith(long, short) ==
    Len(short) <= Len(long) /\ SubSeq(long, 1, Len(short)) = short

\* telegram t, the first on the line, is what the machine has been storing from
\* its first byte on, and no time limit has run out
Consuming(t) ==
    /\ script = t
    /\ sent = 1
    /\ p1.m_message_buffer_position > 0
    /\ \A i \in 0..(Min(p1.m_message_buffer_position, Len(t)) - 1) : Peek([p1 |-> p1], i) = t[i + 1]
    /\ ~obs.tele_timeout

\* the states visited follow the happy path as far as it goes, and the
\* numeric publications are those of the registered records, once each
OnHappyPath(t) ==
    /\ \A i \in 1..Min(Len(obs.tele_visited), Len(HappyPath)) : obs.tele_visited[i] = HappyPath[i]
    /\ StartsWith(RegisteredAddresses(RecordsOf(t)), NumericKeys(obs.tele_pubs))
    /\ (Len(obs.tele_visited) >= Len(HappyPath) =>
            NumericKeys(obs.tele_pubs) = RegisteredAddresses(RecordsOf(t)))

\* C3 as stated: every well-formed ASCII telegram with a correct checksum that
\* is delivered to a machine in Identifying, no timeout elapsing, takes the
\* machine through Identifying, Reading, VerifyingCrc, ProcessingAscii, Waiting
\* in that order, never through ErrorRecovery, with exactly one publication for
\* each record of a registered numeric address
C3_HappyPath ==
    \A t \in WellFormedAscii : Consuming(t) => OnHappyPath(t)

\* C3 amended: the same for every such telegram that is no longer than the
\* buffer capacity
C3_HappyPathFits ==
    \A t \in WellFormedAscii :
        (Consuming(t) /\ Len(t) <= p1.m_message_buffer_size) => OnHappyPath(t)

\* a telegram that fits has been decoded and the machine has reached Waiting
C3_Witness ==
    /\ Consuming(AsciiGood)
    /\ Len(AsciiGood) <= p1.m_message_buffer_size
    /\ obs.tele_visited = HappyPath
    /\ NumericKeys(obs.tele_pubs) = <<OBIS(1, 8, 0)>>

\* C4: in VerifyingCrc, ProcessingAscii and ProcessingBinary every buffer byte
\* that is read lies at an index below the write cursor
C4_ReadsBelowCursor ==
    obs.state0 \in ({"VERIFYING_CRC"} \cup Processing) =>
        obs.rd_max < p1.m_message_buffer_position

AllowedChanges ==
    { <<"IDENTIFYING_MESSAGE", "READING_MESSAGE">>,
      <<"READING_MESSAGE", "VERIFYING_CRC">>,
      <<"VERIFYING_CRC", "PROCESSING_ASCII">>,
      <<"VERIFYING_CRC", "PROCESSING_BINARY">>,
      <<"PROCESSING_ASCII", "WAITING">>,
      <<"PROCESSING_BINARY", "WAITING">>,
      <<"WAITING", "IDENTIFYING_MESSAGE">>,
      <<"ERROR_RECOVERY", "WAITING">> }
    \cup { <<X, "ERROR_RECOVERY">> : X \in States \ {"ERROR_RECOVERY"} }

\* C5: every state change that loop() performs is an edge of the transition
\* graph, and ErrorRecovery is left for Waiting only
C5_TransitionGraph ==
    /\ \A i \in 1..Len(obs.calls) : <<obs.calls[i].from, obs.calls[i].to>> \in AllowedChanges
    /\ (obs.calls # <<>> =>
            /\ obs.calls[1].from = obs.state0
            /\ obs.calls[Len(obs.calls)].to = p1.m_state)
    /\ \A i \in 1..(Len(obs.calls) - 1) : obs.calls[i + 1].from = obs.calls[i].to
    /\ (obs.calls = <<>> => p1.m_state = obs.state0)

\* ErrorRecovery has just been left
C5_Witness ==
    /\ obs.state0 = "ERROR_RECOVERY"
    /\ obs.calls # <<>>
    /\ p1.m_state = "WAITING"

\* C6: within one telegram the checksum boundary, once it is non-zero, never
\* changes again
C6_BoundarySetOnce == ~obs.tele_crc_moved

\* C7: whenever the machine is in Identifying at the start of an invocation,
\* the write cursor is 0, the checksum boundary is 0 and the data format is
\* Unknown
C7_PerTelegramReset ==
    p1.m_state = "IDENTIFYING_MESSAGE" =>
        /\ p1.m_message_buffer_position = 0
        /\ p1.m_crc_position = 0
        /\ p1.m_data_format = "UNKNOWN"

\* Identifying has been entered again with a telegram left in the buffer
C7_Witness ==
    /\ p1.m_state = "IDENTIFYING_MESSAGE"
    /\ obs.state0 = "WAITING"
    /\ obs.calls # <<>>
    /\ Peek([p1 |-> p1], 0) \in {SLASH, FLAG}
    /\ p1.m_message_buffer_position = 0

\* two hex digits, in lower case, for a byte
HexPair(byte) ==
    LET Digit(n) == IF n < 10 THEN 48 + n ELSE 87 + n
    IN  <<Digit(byte \div 16), Digit(byte % 16)>>

RECURSIVE HexText(_, _)
\* the hex encoding of buffer bytes 0..n-1
HexText(mem, n) == IF n <= 0 THEN <<>> ELSE HexText(mem, n - 1) \o HexPair(mem[n - 1])

RECURSIVE Concat(_)
Concat(texts) == IF texts = <<>> THEN <<>> ELSE Head(texts) \o Concat(Tail(texts))

\* C8: when VerifyingCrc finds a mismatch, the discard-log text emitted by
\* that invocation, concatenated in order, is exactly the two-hex-digit
\* encoding of buffer bytes 0..cursor-1, and the discard log is empty when the
\* machine enters ErrorRecovery
C8_MismatchDump ==
    FoundMismatch =>
        /\ Concat(obs.emitted) = HexText(p1.m_message_buffer, p1.m_message_buffer_position)
        /\ p1.m_discard_log = <<>>
        /\ p1.m_state = "ERROR_RECOVERY"

\* a second telegram, longer than the log, has been dumped in several pieces
C8_Witness ==
    /\ FoundMismatch
    /\ sent = 2
    /\ Len(obs.emitted) > 2
    /\ p1.m_message_buffer_position > DiscardLogBytes

RECURSIVE FiringCalls(_)
FiringCalls(calls) ==
    IF calls = <<>> THEN <<>>
    ELSE (IF Head(calls).hook # "none" THEN <<Head(calls)>> ELSE <<>>) \o FiringCalls(Tail(calls))

\* the hooks seen are those of the state changes, each fired while the old
\* state was still current
HooksMatchCalls ==
    LET fired == FiringCalls(obs.calls)
    IN  /\ Len(obs.hooks) = Len(fired)
        /\ \A i \in 1..Len(fired) :
             /\ obs.hooks[i].hook = fired[i].hook
             /\ obs.hooks[i].current = fired[i].from

\* the notification of each kind of state change
CategoryOf(from, to) ==
    CASE to = "IDENTIFYING_MESSAGE" -> "ready_to_receive"
      [] to = "READING_MESSAGE" -> "receiving_update"
      [] to = "VERIFYING_CRC" -> "update_received"
      [] to = "ERROR_RECOVERY" -> "communication_error"
      [] to = "WAITING" /\ from # "ERROR_RECOVERY" -> "update_processed"
      [] OTHER -> "none"

\* C10 as stated: each call that changes the state, whatever the new state and
\* the predecessor, fires a notification hook before the new state becomes
\* current
C10_EveryChangeFiresHook ==
    /\ \A i \in 1..Len(obs.calls) : obs.calls[i].hook # "none"
    /\ HooksMatchCalls

\* C10 amended: a change to Identifying, Reading, VerifyingCrc or
\* ErrorRecovery, or to Waiting from a state other than ErrorRecovery, fires
\* the hook of its category before the new state becomes current; a change to
\* ProcessingAscii or ProcessingBinary, or from ErrorRecovery to Waiting,
\* fires no hook
C10_HookPerCategory ==
    /\ \A i \in 1..Len(obs.calls) :
         obs.calls[i].hook = CategoryOf(obs.calls[i].from, obs.calls[i].to)
    /\ HooksMatchCalls

\* ErrorRecovery has been left for Waiting without any notification
C10_Witness ==
    /\ obs.calls = <<[from |-> "ERROR_RECOVERY", to |-> "WAITING", hook |-> "none"]>>
    /\ obs.hooks = <<>>

\* C11: the machine moves from ErrorRecovery to Waiting only when no byte has
\* been taken from the transport during the 500 ms before the transition
C11_QuietBeforeLeaving ==
    (obs.state0 = "ERROR_RECOVERY" /\ p1.m_state = "WAITING" /\ obs.rec_drain # <<>>) =>
        ~U32Less(U32Sub(now, obs.rec_drain[1]), U32(quiet_time_ms))

\* the machine is recovering and the clock can still advance
RecoveringWithTime == p1.m_state = "ERROR_RECOVERY" /\ ticks < MaxTicks

\* C12 as stated: provided loop() keeps being invoked and the clock advances,
\* every entry into ErrorRecovery is eventually followed by a transition to
\* Waiting, whatever bytes the transport delivers in the meantime
C12_RecoveryEnds == RecoveringWithTime ~> (p1.m_state = "WAITING")

\* C12 amended: the same provided the transport eventually stops delivering
\* bytes
C12_RecoveryEndsWhenQuiet ==
    <>[](rx = <<>>) => (RecoveringWithTime ~> (p1.m_state = "WAITING"))

\* the machine has left a recovery in which it drained bytes
C12_Witness ==
    /\ obs.state0 = "ERROR_RECOVERY"
    /\ p1.m_state = "WAITING"
    /\ obs.rec_drain # <<>>

\* the machine identifies, nothing is available, and more than 60 s have
\* passed since Identifying was entered
IdleExpired ==
    /\ p1.m_state = "IDENTIFYING_MESSAGE"
    /\ rx = <<>>
    /\ U32Less(U32(max_wait_time_ms), U32Sub(now, p1.m_identifying_message_time))

\* the invocation that ended last has found the idle time exceeded
IdleTimedOut == obs.state0 = "IDENTIFYING_MESSAGE" /\ obs.tele_timeout

\* that invocation made one change of state, to ErrorRecovery, with one
\* communication_error notification
OneErrorTransition ==
    /\ p1.m_state = "ERROR_RECOVERY"
    /\ obs.calls = <<[from |-> "IDENTIFYING_MESSAGE", to |-> "ERROR_RECOVERY",
                      hook |-> "communication_error"]>>
    /\ Len(obs.hooks) = 1
    /\ obs.hooks[1].hook = "communication_error"

GateOpened ==
    /\ obs.state0 = "WAITING"
    /\ p1.m_state = "IDENTIFYING_MESSAGE"
    /\ obs.calls # <<>>
    /\ p1.m_min_period_ms # 0

\* C14 as stated: with a non-zero minimum period P the machine moves from
\* Waiting to Identifying only when more than P ms have elapsed since the
\* format byte of the last telegram was accepted (m_reading_message_time;
\* m_identifying_message_time is the time of the move)
C14_GateSinceIdentified ==
    (GateOpened /\ obs.identified) =>
        U32Less(U32(p1.m_min_period_ms),
                U32Sub(p1.m_identifying_message_time, p1.m_reading_message_time))

\* C14, measured as the code measures: with a non-zero minimum period P the
\* machine moves from Waiting to Identifying only when more than P ms have
\* elapsed since Identifying was last entered, and with P = 0 an invocation in
\* Waiting always moves it to Identifying
C14_GateSinceEntered ==
    [][(p1.m_state = "WAITING" /\ p1' # p1) =>
          IF p1.m_min_period_ms = 0
          THEN p1'.m_state = "IDENTIFYING_MESSAGE"
          ELSE p1'.m_state = "IDENTIFYING_MESSAGE" =>
                  U32Less(U32(p1.m_min_period_ms),
                          U32Sub(now, p1.m_identifying_message_time))]_vars

\* the gate has opened after a telegram was identified
C14_Witness == GateOpened /\ obs.identified

\* C15: an invocation in Waiting moves the machine to ErrorRecovery only when
\* bytes are available, the minimum period is not 0 and has not elapsed
\* (neither since Identifying was entered nor since the last telegram was
\* identified), and it leaves the available bytes where they are
C15_UnsolicitedData ==
    [][(p1.m_state = "WAITING" /\ p1'.m_state = "ERROR_RECOVERY") =>
          /\ rx # <<>>
          /\ rx' = rx
          /\ p1.m_min_period_ms # 0
          /\ ~U32Less(U32(p1.m_min_period_ms),
                      U32Sub(now, p1.m_identifying_message_time))
          /\ obs.identified =>
                ~U32Less(U32(p1.m_min_period_ms),
                         U32Sub(now, p1.m_reading_message_time))]_vars

\* an invocation in Waiting has answered unsolicited bytes
C15_Witness ==
    /\ obs.state0 = "WAITING"
    /\ p1.m_state = "ERROR_RECOVERY"
    /\ rx # <<>>
    /\ obs.calls = <<[from |-> "WAITING", to |-> "ERROR_RECOVERY",
                      hook |-> "communication_error"]>>

\* the text sensors, by their place in the registration order, whose
\* identifier is a prefix of the line
TextMatches(line) ==
    {k \in 1..Len(m_text_sensors) : StartsWith(line, m_text_sensors[k])}

\* the callbacks the dispatch policy allows for a record: kind and binding
PolicyFor(line) ==
    IF SensorLine(line).is_sensor_line /\ SensorLine(line).key \in m_sensors
    THEN <<[kind |-> "value", key |-> SensorLine(line).key]>>
    ELSE IF TextMatches(line) # {}
    THEN <<[kind |-> "text",
            key |-> CHOOSE k \in TextMatches(line) : \A j \in TextMatches(line) : k <= j]>>
    ELSE <<>>

\* the callbacks made for a record: kind and binding
CallbacksOf(r) == [j \in 1..Len(r.pubs) |-> [kind |-> r.pubs[j].kind, key |-> r.pubs[j].key]]

\* the non-empty records of the telegrams that are decoded to their end
LinesOf(t) ==
    IF t = AsciiGood THEN <<Str(<<"/","I">>), RecEnergy, RecOther, RecText>>
    ELSE <<Str(<<"/","I">>), RecBoth, RecSerial>>

\* C16: a non-empty record of a verified ASCII telegram triggers at most one
\* callback: that of the numeric binding of its address if it is a value record
\* with a registered address, otherwise that of the first text binding whose
\* identifier is a prefix of it, otherwise none; and the records after a record
\* without a callback are dispatched all the same
C16_DispatchPolicy ==
    /\ \A i \in 1..Len(obs.tele_records) :
          /\ Len(obs.tele_records[i].pubs) <= 1
          /\ CallbacksOf(obs.tele_records[i]) = PolicyFor(obs.tele_records[i].line)
          /\ \A j \in 1..Len(obs.tele_records[i].pubs) :
                obs.tele_records[i].pubs[j].kind = "text" =>
                    obs.tele_records[i].pubs[j].val = obs.tele_records[i].line
    /\ \A t \in {AsciiGood, AsciiMixed} :
          (Consuming(t) /\ obs.tele_visited = HappyPath) =>
              [i \in 1..Len(obs.tele_records) |-> obs.tele_records[i].line] = LinesOf(t)

\* the telegram whose records several bindings match has been decoded: the
\* first record went to its numeric binding only, the second to the first of
\* the two text bindings that match it
C16_Witness ==
    /\ Consuming(AsciiMixed)
    /\ obs.tele_visited = HappyPath
    /\ Len(obs.tele_records) = 3
    /\ TextMatches(RecBoth) = {2}
    /\ TextMatches(RecSerial) = {1, 2}
    /\ CallbacksOf(obs.tele_records[1]) = <<>>
    /\ CallbacksOf(obs.tele_records[2]) = <<[kind |-> "value", key |-> OBIS(32, 7, 0)]>>
    /\ CallbacksOf(obs.tele_records[3]) = <<[kind |-> "text", key |-> 1]>>

\* the scalar element types: unsigned-32, unsigned-16, signed-16
Scalars == {6, 16, 18}

\* an octet-string element of length 6, and the address its third, fourth and
\* fifth data bytes form
IsAddressElement(e) == e.type = 9 /\ e.bytes[1] = 6

ElementAddress(e) == OBIS(e.bytes[4], e.bytes[5], e.bytes[6])

\* the value of a scalar element: its raw data bytes, big-endian, over 1000 for
\* unsigned-32 and over 10 for the 16-bit types
ScalarValue(e) ==
    CASE e.type = 6 ->
           [raw |-> <<e.bytes[1] * 256 + e.bytes[2], e.bytes[3] * 256 + e.bytes[4]>>,
            neg |-> FALSE, div |-> 1000]
      [] e.type = 16 ->
           [raw |-> <<0, e.bytes[1] * 256 + e.bytes[2]>>, neg |-> FALSE, div |-> 10]
      [] OTHER ->
           IF e.bytes[1] * 256 + e.bytes[2] >= 32768
           THEN [raw |-> <<0, 65536 - (e.bytes[1] * 256 + e.bytes[2])>>, neg |-> TRUE, div |-> 10]
           ELSE [raw |-> <<0, e.bytes[1] * 256 + e.bytes[2]>>, neg |-> FALSE, div |-> 10]

\* the place among the elements walked of the last octet-string of length 6
\* before element i of this telegram; 0 if there is none
LastAddressBefore(elems, i) ==
    IF \E j \in 1..(i - 1) : IsAddressElement(elems[j])
    THEN CHOOSE j \in 1..(i - 1) :
            /\ IsAddressElement(elems[j])
            /\ \A k \in (j + 1)..(i - 1) : ~IsAddressElement(elems[k])
    ELSE 0

BinaryPath ==
    <<"IDENTIFYING_MESSAGE", "READING_MESSAGE", "VERIFYING_CRC", "PROCESSING_BINARY", "WAITING">>

TypesOf(elems) == [i \in 1..Len(elems) |-> elems[i].type]

\* C17: in a verified binary telegram a scalar element that follows an
\* octet-string of length 6 is published exactly once, to the binding of the
\* address formed from that octet-string's third, fourth and fifth data bytes,
\* with value raw/1000 (unsigned-32) or raw/10 (16-bit); without a binding for
\* that address nothing is published and the walk goes on; no other element
\* publishes anything
C17_BinaryAssociation ==
    /\ \A i \in 1..Len(obs.tele_elems) :
          /\ obs.tele_elems[i].type \notin Scalars => obs.tele_elems[i].pubs = <<>>
          /\ (obs.tele_elems[i].type \in Scalars /\ LastAddressBefore(obs.tele_elems, i) # 0) =>
                obs.tele_elems[i].pubs =
                    IF ElementAddress(obs.tele_elems[LastAddressBefore(obs.tele_elems, i)]) \in m_sensors
                    THEN <<[kind |-> "value",
                            key |-> ElementAddress(obs.tele_elems[LastAddressBefore(obs.tele_elems, i)]),
                            val |-> ScalarValue(obs.tele_elems[i])]>>
                    ELSE <<>>
    /\ (Consuming(BinaryOther) /\ obs.tele_visited = BinaryPath) =>
          TypesOf(obs.tele_elems) = <<9, 6, 9, 16>>
    /\ (Consuming(BinaryGood) /\ obs.tele_visited = BinaryPath) =>
          obs.tele_pubs =
              <<[kind |-> "value", key |-> OBIS(1, 8, 0),
                 val |-> [raw |-> <<18, 54919>>, neg |-> FALSE, div |-> 1000]],
                [kind |-> "value", key |-> OBIS(32, 7, 0),
                 val |-> [raw |-> <<0, 7>>, neg |-> FALSE, div |-> 10]],
                [kind |-> "value", key |-> OBIS(32, 7, 0),
                 val |-> [raw |-> <<0, 6>>, neg |-> TRUE, div |-> 10]]>>

\* the frame with an unregistered address has been walked to its end: nothing
\* was published for the scalar of that address, and the scalar of the
\* registered address after it was published once
C17_Witness ==
    /\ Consuming(BinaryOther)
    /\ obs.tele_visited = BinaryPath
    /\ TypesOf(obs.tele_elems) = <<9, 6, 9, 16>>
    /\ ElementAddress(obs.tele_elems[1]) \notin m_sensors
    /\ obs.tele_elems[2].pubs = <<>>
    /\ obs.tele_elems[4].pubs =
          <<[kind |-> "value", key |-> OBIS(32, 7, 0),
             val |-> [raw |-> <<0, 7>>, neg |-> FALSE, div |-> 10]]>>

\* C19: in ProcessingBinary a scalar element is published only under an
\* address set by an octet-string of length 6 walked earlier in the same
\* telegram
C19_NoAddressCarriedOver ==
    \A i \in 1..Len(obs.tele_elems) :
        (obs.tele_elems[i].type \in Scalars /\ obs.tele_elems[i].pubs # <<>>) =>
            LastAddressBefore(obs.tele_elems, i) # 0

\* the decimal number of a run of digits, modulo m
RECURSIVE NumberMod(_, _)
NumberMod(run, m) ==
    IF run = <<>> THEN 0
    ELSE (NumberMod(SubSeq(run, 1, Len(run) - 1), m) * 10 + (run[Len(run)] - 48)) % m

\* a run of one or more decimal digits
IsNumber(run) == run # <<>> /\ \A i \in 1..Len(run) : IsDigit(run[i])

Part(text, i, j) == SubSeq(text, i + 1, j - 1)

\* C "." D "." E from after position i to the end of the text, each a number
IsThreeParts(text, i) ==
    \E j \in (i + 1)..Len(text) : \E k \in (j + 1)..Len(text) :
        /\ text[j] = 46 /\ text[k] = 46
        /\ IsNumber(Part(text, i, j))
        /\ IsNumber(Part(text, j, k))
        /\ IsNumber(Part(text, k, Len(text) + 1))

\* encode(C, D, E) for the parts after position i
KeyOfThreeParts(text, i) ==
    LET j == CHOOSE j \in (i + 1)..Len(text) : text[j] = 46
        k == CHOOSE k \in (j + 1)..Len(text) : text[k] = 46
    IN  OBIS(NumberMod(Part(text, i, j), 4096),
             NumberMod(Part(text, j, k), 256),
             NumberMod(Part(text, k, Len(text) + 1), 256))

\* where C starts in a text of the form A-B:C.D.E (the position of ":"), 0 in
\* a text of the form C.D.E, and -1 in any other text
FormOf(text) ==
    IF IsThreeParts(text, 0) THEN 0
    ELSE IF \E h \in 1..Len(text) : \E i \in (h + 1)..Len(text) :
                /\ text[h] = 45 /\ text[i] = 58
                /\ IsNumber(Part(text, 0, h))
                /\ IsNumber(Part(text, h, i))
                /\ IsThreeParts(text, i)
    THEN CHOOSE i \in 1..Len(text) : text[i] = 58
    ELSE 0 - 1

\* C18: the key of a sensor constructed from a text is the invalid key
\* 0xFFFFFFFF unless the text is A-B:C.D.E or C.D.E with every part a run of
\* one or more decimal digits, and then it is encode(C, D, E) and not the
\* invalid key
C18_ParseRejectsMalformed ==
    obs.m_obis # <<>> =>
        IF FormOf(script) = 0 - 1
        THEN obs.m_obis[1] = OBIS_ERROR
        ELSE /\ obs.m_obis[1] = KeyOfThreeParts(script, FormOf(script))
             /\ obs.m_obis[1] # OBIS_ERROR

\* the part of C18 about the texts of either form
C18_WellFormedKey ==
    (obs.m_obis # <<>> /\ FormOf(script) # 0 - 1) =>
        /\ obs.m_obis[1] = KeyOfThreeParts(script, FormOf(script))
        /\ obs.m_obis[1] # OBIS_ERROR

\* what a telegram has led to: the state and the callbacks, in order
Outcome(p, o) ==
    [state |-> p.m_state,
     hooks |-> o.tele_hooks,
     pubs |-> o.tele_pubs,
     records |-> o.tele_records,
     elems |-> o.tele_elems]

OutcomeOfRun(c) == Outcome(c.p1, c.obs)

\* the first telegram has arrived and has been taken in full, no time has
\* passed but in the time boxes, and the machine has come to rest
Settled ==
    /\ sent = 1
    /\ ticks = 0
    /\ rx = <<>>
    /\ wire = <<>>
    /\ p1.m_state \in {"READING_MESSAGE", "WAITING", "ERROR_RECOVERY"}

\* C20: however the arrival of a telegram is cut into pieces and wherever the
\* 25 ms time box interrupts its processing, the callbacks made (hooks,
\* publications, the records and elements dispatched, each once and in order)
\* and the state reached are those of the run that takes the telegram in one
\* piece without interruption
C20_SplitIndependence ==
    Settled =>
        Outcome(p1, obs) =
            OutcomeOfRun(WholeRun(CHOOSE cfg \in Configs : cfg.size = p1.m_message_buffer_size,
                                  script))

\* a telegram that arrived in two pieces and whose processing took three
\* invocations has been decoded
C20_Witness ==
    /\ Settled
    /\ script = AsciiGood
    /\ p1.m_state = "WAITING"
    /\ obs.tele_reads = 2
    /\ now = U32(2 * time_box_ms)
    /\ Len(obs.tele_records) = 4

\* more than 10 s have passed on the 32-bit clock since Reading was entered
ReadingLate ==
    U32Less(U32(max_message_time_ms), U32Sub(now, p1.m_reading_message_time))

\* C21: an invocation in Reading that starts more than 10 s after Reading was
\* entered ends in ErrorRecovery unless the bytes available complete the
\* frame, and the deadline never fires in the invocation that enters Reading
\* from Identifying, at every value of the wrapping 32-bit clock
C21_ReadDeadline ==
    [][/\ (p1.m_state = "READING_MESSAGE" /\ ReadingLate /\ obs' # obs) =>
              p1'.m_state \in {"VERIFYING_CRC", "ERROR_RECOVERY"}
       /\ (p1.m_state = "IDENTIFYING_MESSAGE" /\ rx # <<>> /\ obs' # obs) =>
              ~obs'.tele_timeout]_vars

\* the units of work of the step: records walked, elements walked
UnitsDone ==
    (Len(obs'.tele_records) - Len(obs.tele_records))
      + (Len(obs'.tele_elems) - Len(obs.tele_elems))

\* the step is an invocation of loop() in a processing state
ProcessingStep == p1.m_state \in Processing /\ obs' # obs

\* the processing loop stopped because its 25 ms were over
BoxClosed == p1'.m_state = p1.m_state /\ p1'.m_start_of_data # 0

\* C22 for the processing states: an invocation in ProcessingAscii or
\* ProcessingBinary whose 25 ms are over after `units` units of work starts no
\* further unit; it then returns in the same state, 25 ms after it began,
\* whatever is left of the telegram
TimeBoxProcessing ==
    ProcessingStep =>
        /\ UnitsDone <= obs'.units
        /\ p1'.m_state \in {p1.m_state, "WAITING", "ERROR_RECOVERY"}
        /\ BoxClosed =>
              /\ UnitsDone = obs'.units
              /\ now' = U32Add(now, U32(time_box_ms))
              /\ p1'.m_start_of_data > p1.m_start_of_data
        /\ p1'.m_state # p1.m_state => now' = now

C22_TimeBoxProcessing == [][TimeBoxProcessing]_vars

\* C22 as stated, Reading included.  The loop of Reading behaves the same
\* whenever the 25 ms are over, so it has to keep within every such moment
C22_TimeBoxEverywhere ==
    [][/\ TimeBoxProcessing
       /\ (p1.m_state = "READING_MESSAGE" /\ obs' # obs) =>
             \A units \in 1..MaxUnits : Len(rx) - Len(rx') <= units]_vars

\* an invocation in ProcessingAscii has returned with its time box closed
\* after one record, and records are left
C22_Witness ==
    /\ obs.state0 = "PROCESSING_ASCII"
    /\ p1.m_state = "PROCESSING_ASCII"
    /\ obs.units = 1
    /\ Len(obs.tele_records) = 1
    /\ p1.m_start_of_data < p1.m_crc_position - 1

\* the bytes that the step takes from the transport
Taken == SubSeq(rx, 1, Len(rx) - Len(rx'))

\* the two-hex-digit encoding of a sequence of bytes
HexOf(bytes) ==
    [i \in 1..(2 * Len(bytes)) |-> HexPair(bytes[(i + 1) \div 2])[2 - (i % 2)]]

\* the step is an invocation in ErrorRecovery that finds bytes available
DrainStep == p1.m_state = "ERROR_RECOVERY" /\ Len(rx') < Len(rx)

\* C23: a single invocation in ErrorRecovery removes at most 200 bytes from
\* the transport, however many are available, and it interprets none of
\* them: no change of state, no dispatch, no notification; they are only
\* appended, hex encoded, to the discard log
C23_BoundedDrain ==
    [][DrainStep =>
          /\ Len(Taken) <= max_bytes_to_discard
          /\ rx' = SubSeq(rx, Len(Taken) + 1, Len(rx))
          /\ p1' = [p1 EXCEPT !.m_discard_log = p1'.m_discard_log]
          /\ obs'.pubs = <<>> /\ obs'.hooks = <<>> /\ obs'.calls = <<>>
          /\ Concat(obs'.emitted) \o p1'.m_discard_log
               = p1.m_discard_log \o HexOf(Taken)]_vars

\* the step is the first invocation in ProcessingBinary for a telegram
FirstBinaryStep ==
    p1.m_state = "PROCESSING_BINARY" /\ p1.m_start_of_data = 0 /\ obs' # obs

\* no byte 0x13 at the buffer indices from..to
NoControlIn(from, to) == \A i \in from..to : p1.m_message_buffer[i] # CONTROL

\* C24: on the first ProcessingBinary invocation for a telegram, if no byte
\* 0x13 occurs at a buffer index from 3 up to but not including the checksum
\* boundary, the machine moves to ErrorRecovery and dispatches nothing; a 0x13
\* inside the checksum field does not count
C24_MissingControlByte ==
    [][(FirstBinaryStep /\ NoControlIn(3, p1.m_crc_position - 1)) =>
          (p1'.m_state = "ERROR_RECOVERY" /\ obs'.pubs = <<>>)]_vars

\* an invocation in ProcessingAscii has moved the machine to Waiting
AsciiDone == obs.state0 = "PROCESSING_ASCII" /\ p1.m_state = "WAITING"

\* C25: ProcessingAscii moves to Waiting only when its read cursor has reached
\* the checksum marker that defines the checksum boundary (index boundary - 1)
\* or the end of the buffered data, so that every record before the boundary
\* of a verified telegram has been examined, for every byte content that
\* passes the checksum
C25_WholeRegionProcessed ==
    AsciiDone =>
        \/ obs.rd_max = p1.m_crc_position - 1
        \/ obs.rd_max >= p1.m_message_buffer_position


====
